---- MODULE Spec2Model ----
(***************************************************************************)
(* Monthly-metrics-to-chart-series transformation of the dashboard:        *)
(*   ChannelAnalysis.transformedChartData  (ChannelAnalysis.tsx 201-265)   *)
(*   CohortAnalysis.transformedChartData   (unnamed/part_013    326-380)   *)
(*   AudienceTrendChart.transformData      (AudienceTrendChart.tsx 43-87)  *)
(*                                                                         *)
(* JavaScript values are records [t, n, d]: t is the type tag, and a       *)
(* number is the exact rational n/d in lowest terms with d > 0 (floating   *)
(* point rounding is not modelled).  Strings that the code builds and      *)
(* compares (the date keys) are sequences of UTF-16 code units.            *)
(***************************************************************************)
EXTENDS Integers, Sequences, FiniteSets, TLC

VARIABLES monthlyMetrics, loaded, metric, year, chartData, invocations

\* the data-loading effects of one mounted component
VARIABLES component, companyId, dimension, audienceIds, requests, data, loading, error

chartVars == <<monthlyMetrics, loaded, metric, year, chartData>>

fetchVars == <<component, companyId, dimension, audienceIds, requests, data, loading, error>>

\* one request to a server route handler
VARIABLES route, routeRequest, routePc, backendCalls, backendReply, responses

routeVars == <<route, routeRequest, routePc, backendCalls, backendReply, responses>>

\* one call of fetchAudienceMonthlyMetrics
VARIABLES apiPc, apiIds, apiRequests, apiResponse, apiResult

apiVars == <<apiPc, apiIds, apiRequests, apiResponse, apiResult>>

\* one render of PerformanceTable
VARIABLES tablePc, tableData, sortBy, sortDirection, limit, limitedData

tableVars == <<tablePc, tableData, sortBy, sortDirection, limit, limitedData>>

callVars == <<apiVars, tableVars>>

vars == <<chartVars, invocations, fetchVars, routeVars, callVars>>

(***************************************************************************)
(* Bounds of the explored inputs.                                          *)
(***************************************************************************)
\* entities in an explored input
MaxEntities == 2
\* monthly records in an explored input, all entities together
MaxRecords == 2

\* calendar months carried by the explored records (a subset of 1..12)
Months == {2, 12}
\* values of new Date().getFullYear() explored
Years == {2024, 2025}
\* entity ids explored
Ids == {"A", "B"}
\* an entity object without channel_id / audience_id
NoId == "<no id>"

(***************************************************************************)
(* JavaScript values and arithmetic.                                       *)
(***************************************************************************)
RECURSIVE GCD(_, _)
GCD(a, b) == IF b = 0 THEN a ELSE GCD(b, a % b)

Abs(x) == IF x < 0 THEN -x ELSE x

Num(n, d) ==
  LET g == GCD(Abs(n), Abs(d))
      s == IF d < 0 THEN -1 ELSE 1
  IN  [t |-> "num", n |-> (s * n) \div g, d |-> (s * d) \div g]

Undefined == [t |-> "undefined", n |-> 0, d |-> 1]
Null == [t |-> "null", n |-> 0, d |-> 1]
NaN == [t |-> "nan", n |-> 0, d |-> 1]
Infinity(sign) == [t |-> "inf", n |-> sign, d |-> 1]

IsNum(v) == v.t = "num"

\* ToNumber: undefined -> NaN, null -> +0
ToNumber(v) ==
  CASE v.t = "undefined" -> NaN
    [] v.t = "null" -> Num(0, 1)
    [] OTHER -> v

\* ToBoolean for the values above: 0, NaN, undefined and null are falsy
Truthy(v) == v.t = "inf" \/ (v.t = "num" /\ v.n # 0)

\* v > 0 (relational comparison with a NaN operand is false)
GtZero(v) ==
  LET x == ToNumber(v)
  IN  (x.t = "num" /\ x.n > 0) \/ (x.t = "inf" /\ x.n > 0)

Sign(x) == IF x > 0 THEN 1 ELSE IF x < 0 THEN -1 ELSE 0

\* a * b
Mul(a, b) ==
  LET x == ToNumber(a)
      y == ToNumber(b)
  IN  CASE x.t = "nan" \/ y.t = "nan" -> NaN
        [] x.t = "inf" \/ y.t = "inf" ->
             IF x.n = 0 \/ y.n = 0 THEN NaN ELSE Infinity(Sign(x.n) * Sign(y.n))
        [] OTHER -> Num(x.n * y.n, x.d * y.d)

\* a / b : a division by zero raises nothing, it yields Infinity or NaN
Div(a, b) ==
  LET x == ToNumber(a)
      y == ToNumber(b)
  IN  CASE x.t = "nan" \/ y.t = "nan" -> NaN
        [] x.t = "inf" /\ y.t = "inf" -> NaN
        [] x.t = "inf" -> Infinity(IF y.n < 0 THEN -x.n ELSE x.n)
        [] y.t = "inf" -> Num(0, 1)
        [] y.n = 0 -> IF x.n = 0 THEN NaN ELSE Infinity(Sign(x.n))
        [] OTHER -> Num(x.n * y.d, x.d * y.n)

\* a || b
OrElse(a, b) == IF Truthy(a) THEN a ELSE b

(***************************************************************************)
(* Strings as sequences of code units.                                     *)
(***************************************************************************)
Hyphen == 45
Zero == 48

RECURSIVE Digits(_)
Digits(n) == IF n < 10 THEN <<Zero + n>> ELSE Digits(n \div 10) \o <<Zero + (n % 10)>>

\* Number.prototype.toString / String(n) for a non-negative integer
NumToString(v) == Digits(v.n)

RECURSIVE PadStart(_, _, _)
PadStart(s, len, fill) == IF Len(s) >= len THEN s ELSE PadStart(<<fill>> \o s, len, fill)

\* s < t in the order of Array.prototype.sort without a comparator (code units)
RECURSIVE LexLess(_, _)
LexLess(s, u) ==
  IF u = <<>> THEN FALSE
  ELSE IF s = <<>> THEN TRUE
  ELSE IF Head(s) # Head(u) THEN Head(s) < Head(u)
  ELSE LexLess(Tail(s), Tail(u))

IsDigit(c) == c >= Zero /\ c <= Zero + 9

\* parseInt of a string of decimal digits (leading zeros allowed)
RECURSIVE ParseIntFrom(_, _)
ParseIntFrom(s, acc) ==
  IF s = <<>> \/ ~IsDigit(Head(s)) THEN acc
  ELSE ParseIntFrom(Tail(s), 10 * acc + (Head(s) - Zero))

ParseInt(s) == IF s = <<>> \/ ~IsDigit(Head(s)) THEN NaN ELSE Num(ParseIntFrom(s, 0), 1)

(***************************************************************************)
(* Date keys.                                                              *)
(***************************************************************************)
\* `${year}-${monthNum.toString().padStart(2, '0')}-01`
MonthDate(y, monthNum) ==
  Digits(y) \o <<Hyphen>> \o PadStart(NumToString(monthNum), 2, Zero) \o <<Hyphen, Zero, Zero + 1>>

\* `2024-${String(point.month).padStart(2, '0')}`
MonthStr(month) ==
  Digits(2024) \o <<Hyphen>> \o PadStart(NumToString(month), 2, Zero)

IsLeap(y) == (y % 4 = 0 /\ y % 100 # 0) \/ y % 400 = 0

DaysInMonth(y, m) ==
  IF m = 2 THEN (IF IsLeap(y) THEN 29 ELSE 28)
  ELSE IF m \in {4, 6, 9, 11} THEN 30 ELSE 31

RECURSIVE DaysBeforeMonth(_, _)
DaysBeforeMonth(y, m) == IF m <= 1 THEN 0 ELSE DaysBeforeMonth(y, m - 1) + DaysInMonth(y, m - 1)

LeapsBefore(y) == ((y - 1) \div 4) - ((y - 1) \div 100) + ((y - 1) \div 400)

\* new Date(s).getTime() for a date-only string, in days since 1970-01-01 UTC
\* (the code only subtracts two such times); NaN for a string that is no
\* YYYY-MM-DD calendar date
DateGetTime(s) ==
  IF Len(s) # 10 \/ s[5] # Hyphen \/ s[8] # Hyphen
     \/ \E i \in {1, 2, 3, 4, 6, 7, 9, 10} : ~IsDigit(s[i])
  THEN NaN
  ELSE LET y == ParseIntFrom(SubSeq(s, 1, 4), 0)
           m == ParseIntFrom(SubSeq(s, 6, 7), 0)
           d == ParseIntFrom(SubSeq(s, 9, 10), 0)
       IN  IF m < 1 \/ m > 12 \/ d < 1 \/ d > DaysInMonth(y, m) THEN NaN
           ELSE Num(365 * (y - 1970) + (LeapsBefore(y) - LeapsBefore(1970))
                      + DaysBeforeMonth(y, m) + (d - 1), 1)

\* the comparator (a, b) => new Date(a.month).getTime() - new Date(b.month).getTime()
\* as Array.prototype.sort reads it: its sign, a NaN result counting as 0
CompareByMonth(a, b) ==
  LET ta == DateGetTime(a.month)
      tb == DateGetTime(b.month)
  IN  IF ta.t = "nan" \/ tb.t = "nan" THEN 0 ELSE Sign(ta.n - tb.n)

\* Array.prototype.sort with that comparator (a stable sort)
RECURSIVE InsertByMonth(_, _)
InsertByMonth(sorted, x) ==
  IF sorted = <<>> THEN <<x>>
  ELSE LET last == sorted[Len(sorted)]
       IN  IF CompareByMonth(last, x) > 0
           THEN InsertByMonth(SubSeq(sorted, 1, Len(sorted) - 1), x) \o <<last>>
           ELSE sorted \o <<x>>

RECURSIVE SortByMonthFrom(_, _, _)
SortByMonthFrom(rows, i, acc) ==
  IF i > Len(rows) THEN acc ELSE SortByMonthFrom(rows, i + 1, InsertByMonth(acc, rows[i]))

\* SortByMonth leaving the rows in insertion order
SortByMonthSkipped(rows) == rows

SortByMonth(rows) == SortByMonthFrom(rows, 1, <<>>)

\* Array.prototype.sort() of strings without a comparator
RECURSIVE InsertLex(_, _)
InsertLex(sorted, x) ==
  IF sorted = <<>> THEN <<x>>
  ELSE LET last == sorted[Len(sorted)]
       IN  IF LexLess(x, last)
           THEN InsertLex(SubSeq(sorted, 1, Len(sorted) - 1), x) \o <<last>>
           ELSE sorted \o <<x>>

RECURSIVE SortLexFrom(_, _, _)
SortLexFrom(strs, i, acc) ==
  IF i > Len(strs) THEN acc ELSE SortLexFrom(strs, i + 1, InsertLex(acc, strs[i]))

SortLex(strs) == SortLexFrom(strs, 1, <<>>)

(***************************************************************************)
(* Input records.  A monthly record carries every field below; a field     *)
(* the backend left out has the value Undefined.  An entity is             *)
(* [id, monthly_metrics]; id = NoId is an entity object without its id.    *)
(***************************************************************************)
FieldNames ==
  {"month", "roi", "conversion_rate", "acquisition_cost", "ctr", "clicks",
   "campaign_count", "total_spend"}

\* metricPoint[selectedMetric]: a property the record lacks reads as undefined
GetField(rec, name) == IF name \in FieldNames THEN rec[name] ELSE Undefined

\* the property key an id is used as: obj[undefined] addresses "undefined"
PropertyKey(id) == IF id = NoId THEN "undefined" ELSE id

(***************************************************************************)
(* ChannelAnalysis / CohortAnalysis: transformedChartData.                 *)
(***************************************************************************)
\* ChannelValue with the cpa case forgetting the campaign count
ChannelValueWithoutCampaignCount(trendMetric, rec) ==
  CASE trendMetric = "roi" -> rec.roi
    [] trendMetric = "conversion" -> rec.conversion_rate
    [] trendMetric = "cpa" ->
         IF Truthy(rec.clicks) /\ GtZero(rec.clicks)
            /\ Truthy(rec.conversion_rate) /\ GtZero(rec.conversion_rate)
         THEN Div(rec.acquisition_cost, Mul(rec.clicks, rec.conversion_rate))
         ELSE rec.acquisition_cost
    [] trendMetric = "spend" -> rec.total_spend
    [] OTHER -> rec.roi

\* ChannelValue with the cpa guard forgetting the clicks
ChannelValueWithoutClicksGuard(trendMetric, rec) ==
  CASE trendMetric = "roi" -> rec.roi
    [] trendMetric = "conversion" -> rec.conversion_rate
    [] trendMetric = "cpa" ->
         IF Truthy(rec.conversion_rate) /\ GtZero(rec.conversion_rate)
         THEN Div(Mul(rec.acquisition_cost, OrElse(rec.campaign_count, Num(1, 1))),
                  Mul(rec.clicks, rec.conversion_rate))
         ELSE rec.acquisition_cost
    [] trendMetric = "spend" -> rec.total_spend
    [] OTHER -> rec.roi

\* ChannelValue with the spend case computing the spend instead of reading it
ChannelValueWithComputedSpend(trendMetric, rec) ==
  CASE trendMetric = "roi" -> rec.roi
    [] trendMetric = "conversion" -> rec.conversion_rate
    [] trendMetric = "cpa" ->
         IF Truthy(rec.clicks) /\ GtZero(rec.clicks)
            /\ Truthy(rec.conversion_rate) /\ GtZero(rec.conversion_rate)
         THEN Div(Mul(rec.acquisition_cost, OrElse(rec.campaign_count, Num(1, 1))),
                  Mul(rec.clicks, rec.conversion_rate))
         ELSE rec.acquisition_cost
    [] trendMetric = "spend" -> Mul(rec.acquisition_cost, rec.campaign_count)
    [] OTHER -> rec.roi

\* switch (channelTrendMetric) of ChannelAnalysis
ChannelValue(trendMetric, rec) ==
  CASE trendMetric = "roi" -> rec.roi
    [] trendMetric = "conversion" -> rec.conversion_rate
    [] trendMetric = "cpa" ->
         IF Truthy(rec.clicks) /\ GtZero(rec.clicks)
            /\ Truthy(rec.conversion_rate) /\ GtZero(rec.conversion_rate)
         THEN LET totalSpend == Mul(rec.acquisition_cost, OrElse(rec.campaign_count, Num(1, 1)))
                  estimatedConversions == Mul(rec.clicks, rec.conversion_rate)
              IN  Div(totalSpend, estimatedConversions)
         ELSE rec.acquisition_cost
    [] trendMetric = "spend" -> rec.total_spend
    [] OTHER -> rec.roi

\* CohortValue without the ctr case
CohortValueWithoutCtr(trendMetric, rec) ==
  CASE trendMetric = "roi" -> rec.roi
    [] trendMetric = "conversion" -> rec.conversion_rate
    [] trendMetric = "acquisition" -> rec.acquisition_cost
    [] OTHER -> rec.roi

\* switch (audienceTrendMetric) of CohortAnalysis
CohortValue(trendMetric, rec) ==
  CASE trendMetric = "roi" -> rec.roi
    [] trendMetric = "conversion" -> rec.conversion_rate
    [] trendMetric = "acquisition" -> rec.acquisition_cost
    [] trendMetric = "ctr" -> rec.ctr
    [] OTHER -> rec.roi

\* the value the switch of the given component resolves
SwitchValue(comp, trendMetric, rec) ==
  IF comp = "channel" THEN ChannelValue(trendMetric, rec) ELSE CohortValue(trendMetric, rec)

\* the (entity, record) visits of the two nested forEach loops, in order
RECURSIVE Visits(_, _)
Visits(entities, i) ==
  IF i > Len(entities) THEN <<>>
  ELSE [k \in 1..Len(entities[i].monthly_metrics) |->
          [id |-> entities[i].id, rec |-> entities[i].monthly_metrics[k]]]
       \o Visits(entities, i + 1)

\* the position of the row with the given key in groupedByMonth, 0 if none
RowIndex(grouped, key) ==
  IF \E j \in 1..Len(grouped) : grouped[j].month = key
  THEN CHOOSE j \in 1..Len(grouped) : grouped[j].month = key
  ELSE 0

\* NewRow without the null slots of the entities
NewRowWithoutSlots(entities, key) == [month |-> key, slots |-> [k \in {} |-> Null]]

\* a fresh row: { month: monthDate, ...(every entity's id: null) }; the row's
\* own month property is kept apart from the slots (no entity is named "month")
NewRow(entities, key) ==
  [month |-> key,
   slots |-> [k \in {PropertyKey(entities[i].id) : i \in 1..Len(entities)} |-> Null]]

\* GroupVisit without the test for an existing row: every visit adds a row
GroupVisitAlwaysNewRow(grouped, entities, v, comp, trendMetric, y) ==
  LET row == NewRow(entities, MonthDate(y, v.rec.month))
  IN  Append(grouped,
             [row EXCEPT !.slots[PropertyKey(v.id)] = SwitchValue(comp, trendMetric, v.rec)])

\* one visit of the inner forEach: create the month's row when it does not
\* exist yet, then groupedByMonth[monthDate][id] = value
GroupVisit(grouped, entities, v, comp, trendMetric, y) ==
  LET key == MonthDate(y, v.rec.month)
      withRow == IF RowIndex(grouped, key) = 0
                 THEN Append(grouped, NewRow(entities, key))
                 ELSE grouped
      j == RowIndex(withRow, key)
      slots == withRow[j].slots
  IN  [withRow EXCEPT ![j].slots =
         [k \in DOMAIN slots \cup {PropertyKey(v.id)} |->
            IF k = PropertyKey(v.id) THEN SwitchValue(comp, trendMetric, v.rec) ELSE slots[k]]]

\* the loops over all visits; metric.month.toString() throws a TypeError
\* for a record without month, which ends the computation
RECURSIVE GroupedByMonth(_, _, _, _, _, _, _)
GroupedByMonth(visits, i, grouped, entities, comp, trendMetric, y) ==
  IF i > Len(visits) THEN [kind |-> "rows", rows |-> grouped]
  ELSE IF visits[i].rec.month.t \in {"undefined", "null"}
       THEN [kind |-> "throw", rows |-> <<>>]
       ELSE GroupedByMonth(visits, i + 1,
                           GroupVisit(grouped, entities, visits[i], comp, trendMetric, y),
                           entities, comp, trendMetric, y)

\* the accumulator a call starts from, were it kept from the call before
StaleGroupedByMonth ==
  IF chartData.comp \in {"channel", "cohort"} THEN chartData.rows ELSE <<>>

\* const groupedByMonth: Record<string, any> = {}: every call starts from a
\* new empty accumulator
NewGroupedByMonth == <<>>

TransformedChartData(entities, comp, trendMetric, y) ==
  IF Len(entities) = 0 THEN [kind |-> "rows", rows |-> <<>>]
  ELSE LET g == GroupedByMonth(Visits(entities, 1), 1, NewGroupedByMonth, entities, comp,
                               trendMetric, y)
       IN  IF g.kind = "throw" THEN g
           ELSE [kind |-> "rows", rows |-> SortByMonth(g.rows)]

ChannelTransformedChartData(entities, trendMetric, y) ==
  TransformedChartData(entities, "channel", trendMetric, y)

CohortTransformedChartData(entities, trendMetric, y) ==
  TransformedChartData(entities, "cohort", trendMetric, y)

(***************************************************************************)
(* AudienceTrendChart: transformData.                                      *)
(***************************************************************************)
\* allMonths: the month strings of the records with a truthy month, each
\* once, in insertion order
RECURSIVE AllMonths(_, _, _)
AllMonths(visits, i, acc) ==
  IF i > Len(visits) THEN acc
  ELSE LET point == visits[i].rec
           monthStr == MonthStr(point.month)
       IN  IF Truthy(point.month) /\ ~(\E j \in 1..Len(acc) : acc[j] = monthStr)
           THEN AllMonths(visits, i + 1, Append(acc, monthStr))
           ELSE AllMonths(visits, i + 1, acc)

\* audience.monthly_metrics.find(point => point && point.month === monthNum)
\* [found, point]: found = FALSE is find returning undefined
FindPoint(points, monthNum) ==
  IF \E k \in 1..Len(points) : points[k].month = monthNum
  THEN [found |-> TRUE,
        point |-> points[CHOOSE k \in 1..Len(points) :
                           /\ points[k].month = monthNum
                           /\ \A h \in 1..(k - 1) : points[h].month # monthNum]]
  ELSE [found |-> FALSE, point |-> Undefined]

\* typeof v === 'number'
IsNumberType(v) == v.t \in {"num", "nan", "inf"}

\* the value written to dataPoint[audience.audience_id]
TrendValue(audience, monthStr, selectedMetric) ==
  LET monthNum == ParseInt(SubSeq(monthStr, 6, Len(monthStr)))
      metricPoint == FindPoint(audience.monthly_metrics, monthNum)
  IN  IF metricPoint.found /\ IsNumberType(GetField(metricPoint.point, selectedMetric))
      THEN GetField(metricPoint.point, selectedMetric)
      ELSE Num(0, 1)

\* the data point of one month: audiences without id are skipped, a later
\* audience with the same id overwrites an earlier one
DataPoint(entities, monthStr, selectedMetric) ==
  LET kept == {i \in 1..Len(entities) : entities[i].id # NoId}
      lastOf(id) == CHOOSE i \in kept :
                      entities[i].id = id /\ \A h \in kept : entities[h].id = id => h <= i
  IN  [month |-> monthStr,
       slots |-> [id \in {entities[i].id : i \in kept} |->
                    TrendValue(entities[lastOf(id)], monthStr, selectedMetric)]]

TransformData(entities, selectedMetric) ==
  IF Len(entities) = 0 THEN [kind |-> "rows", rows |-> <<>>]
  ELSE LET sortedMonths == SortLex(AllMonths(Visits(entities, 1), 1, <<>>))
       IN  [kind |-> "rows",
            rows |-> [j \in 1..Len(sortedMonths) |->
                        DataPoint(entities, sortedMonths[j], selectedMetric)]]

(***************************************************************************)
(* The explored inputs.                                                    *)
(*                                                                         *)
(* Shape inputs vary the structure: up to MaxEntities entities, with or    *)
(* without id, sharing up to MaxRecords records whose month is one of      *)
(* Months or missing; the j-th record of the input carries values that     *)
(* identify it.  Value inputs vary the fields of the single record of a    *)
(* single entity, each field present or missing or zero.                   *)
(***************************************************************************)
ShapeRecord(j, month) ==
  [month |-> month, roi |-> Num(2 * j + 1, 2), conversion_rate |-> Num(1, 10),
   acquisition_cost |-> Num(5 * j, 1), ctr |-> Num(1, 20), clicks |-> Num(100, 1),
   campaign_count |-> Num(j, 1), total_spend |-> Num(1000 * j, 1)]

MonthOptions == {Num(m, 1) : m \in Months} \cup {Undefined}

\* the records of entity i among the input's records, in their order
RECURSIVE RecordsOf(_, _, _)
RecordsOf(recs, i, j) ==
  IF j > Len(recs) THEN <<>>
  ELSE (IF recs[j][1] = i THEN <<ShapeRecord(j, recs[j][2])>> ELSE <<>>)
       \o RecordsOf(recs, i, j + 1)

ShapeInput(ids, recs) ==
  [i \in 1..Len(ids) |-> [id |-> ids[i], monthly_metrics |-> RecordsOf(recs, i, 1)]]

\* the records of a shape input as (owner, month) pairs, entity by entity
ShapeRecords(n, t) ==
  {r \in [1..t -> (1..n) \X MonthOptions] : \A j \in 1..(t - 1) : r[j][1] <= r[j + 1][1]}

ValueRecords ==
  [month : {Num(1, 1)},
   roi : {Undefined, Num(5, 2)},
   conversion_rate : {Undefined, Num(0, 1), Num(1, 10)},
   acquisition_cost : {Undefined, Num(5, 1)},
   ctr : {Undefined, Num(1, 20)},
   clicks : {Undefined, Num(0, 1), Num(100, 1)},
   campaign_count : {Undefined, Num(0, 1), Num(1, 2), Num(2, 1)},
   total_spend : {Undefined, Num(1000, 1)}]

ValueInputs == {<<[id |-> "A", monthly_metrics |-> <<r>>]>> : r \in ValueRecords}

\* the metric names of the three selectors and of the specification's closed
\* set, and one name that none of them knows
MetricNames ==
  {"roi", "conversion", "conversion_rate", "acquisition", "acquisition_cost",
   "cpa", "ctr", "spend", "bogus"}

\* the initial selections: useState('cpa') in ChannelAnalysis, useState('roi')
\* in CohortAnalysis and AudienceTrendChart
InitialMetrics == {"cpa", "roi"}

NoChart == [comp |-> "none", kind |-> "rows", rows |-> <<>>]

\* the scenario of the specification: entity A with a record of month 1 and
\* roi 2.5, entity B with a record of month 2 and roi 3.0, no other field
ScenarioRecord(month, roi) ==
  [month |-> month, roi |-> roi, conversion_rate |-> Undefined,
   acquisition_cost |-> Undefined, ctr |-> Undefined, clicks |-> Undefined,
   campaign_count |-> Undefined, total_spend |-> Undefined]

ScenarioInput ==
  <<[id |-> "A", monthly_metrics |-> <<ScenarioRecord(Num(1, 1), Num(5, 2))>>],
    [id |-> "B", monthly_metrics |-> <<ScenarioRecord(Num(2, 1), Num(3, 1))>>]>>

(***************************************************************************)
(* The data-loading effects.                                               *)
(*                                                                         *)
(* A component holds, for each of its data sources, the data of the last   *)
(* response stored, a loading flag and an error entry.  An effect runs     *)
(* when one of its dependencies changes: it sets the flag and issues the   *)
(* request; the rest of the async function runs when the request settles.  *)
(* requests lists the runs of the effects in the order they were issued.   *)
(***************************************************************************)
\* runs of effects explored in one behaviour
MaxRequests == 3

Components ==
  {"ChannelAnalysis", "CohortAnalysis", "CampaignAnalysis", "AudienceTrendChart", "Home"}

Companies == {"acme", "globex"}
\* useState<string>(''): no company selected
NoCompany == ""

Dimensions == {"goal", "target_audience"}

\* the options of the duration dimension selector of CampaignAnalysis
DurationDimensions == {"company", "channel", "goal"}

\* the company lists /api/companies answers with
CompanyLists == {<<>>, <<"acme", "globex">>}

\* what the user types into the query box
Questions == {"", "   ", "which channel is best"}

\* question.trim()
Trim(q) == IF q = "   " THEN "" ELSE q

AudienceIdLists == {<<>>, <<"A">>, <<"A", "B">>}

\* the effects of a component, in the order they are declared
\* (two of the effects of ChannelAnalysis, CohortAnalysis and
\* CampaignAnalysis: the others have the code of the first one, with their
\* own key)
EffectOrder(c) ==
  CASE c \in {"ChannelAnalysis", "CohortAnalysis"} -> <<"monthlyMetrics", "matrix">>
    [] c = "CampaignAnalysis" -> <<"duration", "forecast">>
    [] c = "AudienceTrendChart" -> <<"monthlyData">>
    [] OTHER -> <<"companies", "companyData">>

\* the requests an event handler issues: handleQuerySubmit of Home
HandlerSources(c) == IF c = "Home" THEN {"query"} ELSE {}

SourcesOf(c) == {EffectOrder(c)[k] : k \in 1..Len(EffectOrder(c))} \cup HandlerSources(c)

\* the dependency array of the effect of a source
DependsOn(c, source) ==
  CASE source \in {"matrix", "duration"} -> {"companyId", "dimension"}
    [] source = "monthlyData" -> {"companyId", "audienceIds"}
    [] source \in {"companies", "query"} -> {}
    [] OTHER -> {"companyId"}

\* the early return of the effect: if (!companyId) return, if
\* (!audienceIds.length) return; loadCompanies has none
EffectRuns(c, source, company, ids) ==
  CASE c = "AudienceTrendChart" -> Len(ids) > 0
    [] source = "companies" -> TRUE
    [] OTHER -> company # NoCompany

\* HTTP requests one run issues: one fetch in the api function, three api
\* functions under Promise.all in loadCompanyData
RequestsSent(c, source) == IF source = "companyData" THEN 3 ELSE 1

\* the state a source keeps its loading flag in: a key of the loading
\* object, or the loading and queryLoading states of Home
LoadingKey(c, source) ==
  CASE c # "Home" -> source
    [] source = "query" -> "queryLoading"
    [] OTHER -> "loading"

\* the state a source keeps its error in: a key of the error object, or the
\* one error state of Home
ErrorKey(c, source) == IF c = "Home" THEN "error" ELSE source

LoadingKeys(c) == {LoadingKey(c, s) : s \in SourcesOf(c)}

ErrorKeys(c) == {ErrorKey(c, s) : s \in SourcesOf(c)}

NoError == "<no error>"

\* the message of the catch block; handleQuerySubmit shows the message of
\* the error askQuestion throws: the error of the route's body, or what
\* fetch rejects with
FailureMessage(c, source, outcome) ==
  CASE source = "query" ->
         IF outcome = "http_error" THEN "Failed to process query" ELSE "Failed to fetch"
    [] source = "companies" -> "Failed to load companies"
    [] source = "companyData" -> "Failed to load company data"
    [] source = "monthlyData" -> "Failed to load audience trend data"
    [] source = "matrix" -> "Failed to load performance matrix data"
    [] source = "duration" -> "Failed to load campaign duration analysis data"
    [] source = "forecast" -> "Failed to load forecast data"
    [] OTHER -> "Failed to load monthly metrics data"

\* what fetch and the api function can end with: a response with ok status,
\* a response with another status (the api function throws), no response
Outcomes == {"ok", "http_error", "network_error"}

NoData ==
  [stored |-> FALSE, company |-> NoCompany, dimension |-> "", audienceIds |-> <<>>,
   list |-> <<>>]

\* the value the api function resolves to for the arguments of the run
Payload(run) ==
  [stored |-> TRUE, company |-> run.company, dimension |-> run.dimension,
   audienceIds |-> run.audienceIds, list |-> <<>>]

\* the arguments of the api call of a source
Run(c, source, company, dim, ids) ==
  [source |-> source, company |-> company,
   dimension |-> IF source \in {"matrix", "duration"} THEN dim ELSE "",
   audienceIds |-> IF source = "monthlyData" THEN ids ELSE <<>>,
   sent |-> RequestsSent(c, source), status |-> "pending"]

\* the effects that pass their early return on the first render
MountEffects(c) ==
  SelectSeq(EffectOrder(c), LAMBDA s : EffectRuns(c, s, NoCompany, <<>>))

\* the state of a component after its useState calls and the effects of its
\* first render: loadCompanies of Home has issued its request, under the
\* initial true of loading
Mounted(c) ==
  /\ component = c
  /\ companyId = NoCompany
  /\ dimension = IF c = "CampaignAnalysis" THEN "company" ELSE "goal"
  /\ audienceIds = <<>>
  /\ requests = [k \in 1..Len(MountEffects(c)) |->
                   Run(c, MountEffects(c)[k], NoCompany, "", <<>>)]
  /\ data = [s \in SourcesOf(c) |-> NoData]
  /\ loading = [k \in LoadingKeys(c) |-> k = "loading"]
  /\ error = [k \in ErrorKeys(c) |-> NoError]

\* fetchAudienceMonthlyMetrics is not being called
NoApiCall ==
  /\ apiPc = "idle"
  /\ apiIds = <<>>
  /\ apiRequests = <<>>
  /\ apiResponse = [ok |-> FALSE, hasAudiences |-> FALSE, audiences |-> <<>>]
  /\ apiResult = [hasAudiences |-> FALSE, audiences |-> <<>>]

\* no PerformanceTable is rendered
NoTable ==
  /\ tablePc = "idle"
  /\ tableData = <<>>
  /\ sortBy = "avg_roi"
  /\ sortDirection = "desc"
  /\ limit = Undefined
  /\ limitedData = <<>>

NoCall == NoApiCall /\ NoTable

\* no request has reached a route handler
NoRouteRequest ==
  /\ route = "<none>"
  /\ routeRequest = [json |-> TRUE, question |-> "", company |-> ""]
  /\ routePc = "idle"
  /\ backendCalls = 0
  /\ backendReply = [kind |-> "none", status |-> 0,
                     payload |-> [channels |-> <<>>, answer |-> "", hasCompanies |-> FALSE,
                                  companies |-> <<>>],
                     error |-> ""]
  /\ responses = <<>>

InitShape ==
  /\ \E n \in 0..MaxEntities, t \in 0..MaxRecords :
       \E ids \in [1..n -> Ids \cup {NoId}], recs \in ShapeRecords(n, t) :
         monthlyMetrics = ShapeInput(ids, recs)
  /\ loaded = TRUE
  /\ metric \in InitialMetrics
  /\ year = 2024
  /\ chartData = NoChart

InitValues ==
  /\ monthlyMetrics \in ValueInputs
  /\ loaded = TRUE
  /\ metric \in MetricNames
  /\ year \in Years
  /\ chartData = NoChart

InitScenario ==
  /\ monthlyMetrics = ScenarioInput
  /\ loaded = TRUE
  /\ metric = "roi"
  /\ year \in Years
  /\ chartData = NoChart

\* before the first response: useState(null) in ChannelAnalysis and
\* AudienceTrendChart (CohortAnalysis starts from the empty list)
InitNotLoaded ==
  /\ monthlyMetrics = <<>>
  /\ loaded = FALSE
  /\ metric \in InitialMetrics
  /\ year \in Years
  /\ chartData = NoChart

\* no call of a transform has been observed
NoInvocations == invocations = <<>>

Init ==
  /\ InitShape \/ InitValues \/ InitScenario \/ InitNotLoaded
  /\ NoInvocations /\ Mounted("ChannelAnalysis") /\ NoRouteRequest /\ NoCall

(***************************************************************************)
(* Actions: each component computes its chart table from the loaded data,  *)
(* the selected metric and, in two of them, the current year.              *)
(***************************************************************************)
Chart(comp, result) == [comp |-> comp, kind |-> result.kind, rows |-> result.rows]

\* the guard in front of each transform: the state that holds the response is
\* still null (!monthlyMetrics, !monthlyData)
NotLoadedThrows(isLoaded, result) ==
  IF ~isLoaded THEN [kind |-> "throw", rows |-> <<>>] ELSE result

NotLoadedGuard(isLoaded, result) ==
  IF ~isLoaded THEN [kind |-> "rows", rows |-> <<>>] ELSE result

\* the input left reordered, as by a sort of the entity list in place
InputsReordered ==
  /\ monthlyMetrics' = [i \in 1..Len(monthlyMetrics) |->
                          monthlyMetrics[Len(monthlyMetrics) + 1 - i]]
  /\ UNCHANGED <<loaded, metric, year>>

\* the transforms read their inputs (forEach, find, property reads) and write
\* only to the rows they create
InputsRead == UNCHANGED <<monthlyMetrics, loaded, metric, year>>

ChannelAnalysisMemo ==
  /\ chartData' = Chart("channel",
                        NotLoadedGuard(loaded,
                          ChannelTransformedChartData(monthlyMetrics, metric, year)))
  /\ InputsRead

ChannelAnalysisRender == ChannelAnalysisMemo /\ UNCHANGED <<invocations, fetchVars, routeVars, callVars>>

CohortAnalysisMemo ==
  /\ chartData' = Chart("cohort",
                        NotLoadedGuard(loaded,
                          CohortTransformedChartData(monthlyMetrics, metric, year)))
  /\ InputsRead

CohortAnalysisRender == CohortAnalysisMemo /\ UNCHANGED <<invocations, fetchVars, routeVars, callVars>>

AudienceTrendChartTransform ==
  /\ chartData' = Chart("trend", NotLoadedGuard(loaded, TransformData(monthlyMetrics, metric)))
  /\ InputsRead

AudienceTrendChartRender == AudienceTrendChartTransform /\ UNCHANGED <<invocations, fetchVars, routeVars, callVars>>

Next == ChannelAnalysisRender \/ CohortAnalysisRender \/ AudienceTrendChartRender

Spec == Init /\ [][Next]_vars

(***************************************************************************)
(* The transforms called again and again while the component lives: the    *)
(* response is stored, the user selects another metric, the clock passes   *)
(* into another year.  invocations keeps the latest call and one earlier   *)
(* call, each with its inputs, the table it returned and whether that      *)
(* table differs from the one the component held before the call.          *)
(***************************************************************************)
\* two channels with a record each, both of month 2
OverlapInput == ShapeInput(<<"A", "B">>, <<<<1, Num(2, 1)>>, <<2, Num(2, 1)>>>>)

\* the responses explored
Responses == {<<>>, ScenarioInput, OverlapInput}

\* the options of the selectors explored
SelectedMetrics == {"cpa", "roi"}

InitLive ==
  InitNotLoaded /\ NoInvocations /\ Mounted("ChannelAnalysis") /\ NoRouteRequest /\ NoCall

\* setMonthlyMetrics(data)
SetMonthlyMetrics(response) ==
  /\ monthlyMetrics' = response
  /\ loaded' = TRUE
  /\ UNCHANGED <<metric, year, chartData, invocations, fetchVars, routeVars, callVars>>

\* onChange of the metric selector
SetTrendMetric(m) ==
  /\ metric' = m
  /\ UNCHANGED <<monthlyMetrics, loaded, year, chartData, invocations, fetchVars, routeVars, callVars>>

\* new Date().getFullYear() gives another year from now on
NewYear ==
  /\ year' \in Years \ {year}
  /\ UNCHANGED <<monthlyMetrics, loaded, metric, chartData, invocations, fetchVars, routeVars, callVars>>

\* the call just made
Invocation ==
  [comp |-> chartData'.comp, entities |-> monthlyMetrics, loaded |-> loaded,
   metric |-> metric, year |-> year, table |-> chartData',
   replaced |-> chartData' # chartData]

\* the call is observed, and one of the calls observed before is kept
Observe ==
  IF invocations = <<>> THEN invocations' = <<Invocation>>
  ELSE \E i \in 1..Len(invocations) : invocations' = <<invocations[i], Invocation>>

ChannelAnalysisInvocation == ChannelAnalysisMemo /\ Observe /\ UNCHANGED <<fetchVars, routeVars, callVars>>

CohortAnalysisInvocation == CohortAnalysisMemo /\ Observe /\ UNCHANGED <<fetchVars, routeVars, callVars>>

AudienceTrendChartInvocation == AudienceTrendChartTransform /\ Observe /\ UNCHANGED <<fetchVars, routeVars, callVars>>

NextLive ==
  \/ \E response \in Responses : SetMonthlyMetrics(response)
  \/ \E m \in SelectedMetrics : SetTrendMetric(m)
  \/ NewYear
  \/ ChannelAnalysisInvocation
  \/ CohortAnalysisInvocation
  \/ AudienceTrendChartInvocation

SpecLive == InitLive /\ [][NextLive]_vars

(***************************************************************************)
(* The data-loading effects: the steps.                                    *)
(***************************************************************************)
\* the sources whose effect runs after the dependency dep has changed
Started(dep, company, ids) ==
  SelectSeq(EffectOrder(component),
            LAMBDA s : /\ dep \in DependsOn(component, s)
                       /\ EffectRuns(component, s, company, ids))

\* the effects run: each sets its loading flag (AudienceTrendChart clears
\* its error too) and issues its request
RunEffects(dep, company, dim, ids) ==
  LET started == Started(dep, company, ids)
      isStarted(s) == \E k \in 1..Len(started) : started[k] = s
      startedKeys == {LoadingKey(component, s) : s \in {t \in SourcesOf(component) : isStarted(t)}}
  IN  /\ Len(requests) + Len(started) <= MaxRequests
      /\ requests' = requests \o [k \in 1..Len(started) |->
                                    Run(component, started[k], company, dim, ids)]
      /\ loading' = [k \in DOMAIN loading |-> IF k \in startedKeys THEN TRUE ELSE loading[k]]
      /\ error' = [s \in DOMAIN error |->
                     IF isStarted(s) /\ component = "AudienceTrendChart" THEN NoError
                     ELSE error[s]]
      /\ UNCHANGED data

\* the companies Home has loaded: the options of its selector
Loaded(list) == {list[k] : k \in 1..Len(list)}

\* the company selector of Home, whose options are the loaded companies; the
\* other components receive the company as a prop
SelectCompany(c) ==
  /\ c # companyId
  /\ component = "Home" => c \in Loaded(data["companies"].list)
  /\ companyId' = c
  /\ RunEffects("companyId", c, dimension, audienceIds)
  /\ UNCHANGED <<component, dimension, audienceIds>>

\* onChange of the dimension selector of the performance matrix
SetMatrixDimension(d) ==
  /\ component \in {"ChannelAnalysis", "CohortAnalysis"}
  /\ d # dimension
  /\ dimension' = d
  /\ RunEffects("dimension", companyId, d, audienceIds)
  /\ UNCHANGED <<component, companyId, audienceIds>>

\* onChange of the duration dimension selector of CampaignAnalysis
SetDurationDimension(d) ==
  /\ component = "CampaignAnalysis"
  /\ d # dimension
  /\ dimension' = d
  /\ RunEffects("dimension", companyId, d, audienceIds)
  /\ UNCHANGED <<component, companyId, audienceIds>>

\* handleQuerySubmit up to its await: the form of QueryInterface is disabled
\* while queryLoading; a blank question returns at once
SubmitQuery(q) ==
  /\ component = "Home"
  /\ ~loading["queryLoading"]
  /\ Trim(q) # ""
  /\ Len(requests) < MaxRequests
  /\ requests' = Append(requests, Run(component, "query", companyId, dimension, audienceIds))
  /\ loading' = [loading EXCEPT !["queryLoading"] = TRUE]
  /\ error' = [error EXCEPT !["error"] = NoError]
  /\ UNCHANGED <<component, companyId, dimension, audienceIds, data>>

\* the parent passes another audienceIds array
SetAudienceIds(ids) ==
  /\ component = "AudienceTrendChart"
  /\ ids # audienceIds
  /\ audienceIds' = ids
  /\ RunEffects("audienceIds", companyId, dimension, ids)
  /\ UNCHANGED <<component, companyId, dimension>>

Settled(i, status) == [requests EXCEPT ![i].status = status]

\* the failed run issues its request once more
RejectedWithRetry(i, outcome) ==
  /\ requests' = [requests EXCEPT ![i].sent = @ + 1]
  /\ UNCHANGED <<data, loading, error, companyId>>

\* the catch block without the finally block
RejectedWithoutFinally(i, outcome) ==
  /\ requests' = Settled(i, "failed")
  /\ error' = [error EXCEPT ![ErrorKey(component, requests[i].source)] =
                               FailureMessage(component, requests[i].source, outcome)]
  /\ UNCHANGED <<data, loading, companyId>>

\* the await throws: catch sets the error of the source, finally clears its
\* loading flag
Rejected(i, outcome) ==
  LET source == requests[i].source
  IN  /\ requests' = Settled(i, "failed")
      /\ error' = [error EXCEPT ![ErrorKey(component, source)] =
                                   FailureMessage(component, source, outcome)]
      /\ loading' = [loading EXCEPT ![LoadingKey(component, source)] = FALSE]
      /\ UNCHANGED <<data, companyId>>

\* loadCompanies after its await: the list is stored and its first company
\* selected, finally clears loading; the render that follows runs the
\* effect of the selected company, which sets loading and issues its request
ResolvedCompanies(i, list) ==
  LET first == IF Len(list) > 0 THEN list[1] ELSE companyId
      settled == Settled(i, "stored")
  IN  /\ data' = [data EXCEPT !["companies"] = [Payload(requests[i]) EXCEPT !.list = list]]
      /\ companyId' = first
      /\ IF first # companyId
         THEN /\ Len(requests) < MaxRequests
              /\ requests' = Append(settled, Run(component, "companyData", first,
                                                 dimension, audienceIds))
              /\ loading' = [loading EXCEPT !["loading"] = TRUE]
         ELSE /\ requests' = settled
              /\ loading' = [loading EXCEPT !["loading"] = FALSE]
      /\ UNCHANGED error

\* the continuation writes whole objects, not functional updates: the sets
\* of the successful run reset the entries of the other sources
ResolvedWithWholeObjects(i) ==
  LET source == requests[i].source
  IN  IF source = "companies" THEN \E list \in CompanyLists : ResolvedCompanies(i, list)
      ELSE /\ requests' = Settled(i, "stored")
           /\ data' = [data EXCEPT ![source] = Payload(requests[i])]
           /\ error' = [k \in DOMAIN error |-> NoError]
           /\ loading' = [k \in DOMAIN loading |-> FALSE]
           /\ UNCHANGED companyId

\* the await returns: the data is stored, ChannelAnalysis, CohortAnalysis
\* and CampaignAnalysis clear the error of the source, finally clears its
\* loading flag
Resolved(i) ==
  LET source == requests[i].source
  IN  IF source = "companies" THEN \E list \in CompanyLists : ResolvedCompanies(i, list)
      ELSE /\ requests' = Settled(i, "stored")
           /\ data' = [data EXCEPT ![source] = Payload(requests[i])]
           /\ error' = IF component \in {"ChannelAnalysis", "CohortAnalysis", "CampaignAnalysis"}
                       THEN [error EXCEPT ![source] = NoError]
                       ELSE error
           /\ loading' = [loading EXCEPT ![LoadingKey(component, source)] = FALSE]
           /\ UNCHANGED companyId

\* the request of the i-th run settles
Settle(i, outcome) ==
  /\ requests[i].status = "pending"
  /\ IF outcome = "ok" THEN Resolved(i) ELSE Rejected(i, outcome)
  /\ UNCHANGED <<component, dimension, audienceIds>>

InitFetch ==
  /\ InitNotLoaded /\ year = 2024 /\ metric = "roi"
  /\ NoInvocations
  /\ \E c \in Components : Mounted(c)
  /\ NoRouteRequest /\ NoCall

NextFetch ==
  \/ \E c \in Companies : SelectCompany(c) /\ UNCHANGED <<chartVars, invocations, routeVars, callVars>>
  \/ \E d \in Dimensions : SetMatrixDimension(d) /\ UNCHANGED <<chartVars, invocations, routeVars, callVars>>
  \/ \E d \in DurationDimensions :
       SetDurationDimension(d) /\ UNCHANGED <<chartVars, invocations, routeVars, callVars>>
  \/ \E ids \in AudienceIdLists : SetAudienceIds(ids) /\ UNCHANGED <<chartVars, invocations, routeVars, callVars>>
  \/ \E q \in Questions : SubmitQuery(q) /\ UNCHANGED <<chartVars, invocations, routeVars, callVars>>
  \/ \E i \in 1..Len(requests) : \E outcome \in Outcomes :
       Settle(i, outcome) /\ UNCHANGED <<chartVars, invocations, routeVars, callVars>>

SpecFetch == InitFetch /\ [][NextFetch]_vars

(***************************************************************************)
(* The server route handlers.                                              *)
(*                                                                         *)
(* A handler receives a request, calls the backend and answers.  route is  *)
(* the handler, routeRequest the body of the request (read by /api/ask     *)
(* only), backendCalls the number of HTTP calls made to the backend for    *)
(* the request, backendReply what the awaited call ended with, responses   *)
(* the responses returned for the request.                                 *)
(***************************************************************************)
\* channels in a payload of the backend
MaxChannels == 2

Routes ==
  {"channels/monthly_metrics", "insights", "ask", "channels/efficiency",
   "channels/performance_matrix", "audiences/performance_matrix", "companies"}

\* the handlers that tell axios errors apart in their catch block
AxiosErrorRoutes ==
  {"channels/efficiency", "channels/performance_matrix", "audiences/performance_matrix",
   "companies"}

\* the body of a GET request, which no handler reads
NoBody == [json |-> TRUE, question |-> "", company |-> ""]

\* the bodies posted to /api/ask: not JSON, or JSON whose question and
\* company are missing or empty ("") or present
AskBodies ==
  {[json |-> FALSE, question |-> "", company |-> ""]}
    \cup [json : {TRUE}, question : {"", "which channel is best"}, company : {"", "acme"}]

RouteRequests(r) == IF r = "ask" THEN AskBodies ELSE {NoBody}

\* the channels of the backend: each field present, zero or absent
BackendChannels ==
  [total_spend : {Undefined, Num(0, 1), Num(1000, 1)},
   avg_acquisition_cost : {Undefined, Num(0, 1), Num(5, 1)},
   campaign_count : {Undefined, Num(0, 1), Num(2, 1)},
   avg_roi : {Num(3, 2)}]

ChannelLists == UNION {[1..n -> BackendChannels] : n \in 0..MaxChannels}

NoPayload == [channels |-> <<>>, answer |-> "", hasCompanies |-> FALSE, companies |-> <<>>]

\* the answers of the backend to a question
Answers == {"", "email has the highest ROI"}

\* the JSON payloads of the backend
Payloads(r) ==
  CASE r = "channels/efficiency" -> {[NoPayload EXCEPT !.channels = c] : c \in ChannelLists}
    [] r = "ask" -> {[NoPayload EXCEPT !.answer = a] : a \in Answers}
    [] r = "companies" ->
         {NoPayload} \cup {[NoPayload EXCEPT !.hasCompanies = TRUE, !.companies = list] :
                             list \in CompanyLists}
    [] OTHER -> {NoPayload}

\* how the call of the backend ends: a 2xx response with a JSON payload, a
\* response with another status (with or without an error field in its
\* body), or no response
BackendOutcomes(r) ==
  {[kind |-> "ok", status |-> 200, payload |-> p, error |-> ""] : p \in Payloads(r)}
    \cup [kind : {"http_error"}, status : {404, 503}, payload : {NoPayload},
          error : {"", "company not found"}]
    \cup {[kind |-> "network_error", status |-> 0, payload |-> NoPayload, error |-> ""]}

\* the call has not ended
NoReply == [kind |-> "none", status |-> 0, payload |-> NoPayload, error |-> ""]

DataResponse(payload) == [status |-> 200, kind |-> "data", payload |-> payload, error |-> ""]

ErrorResponse(status, message) ==
  [status |-> status, kind |-> "error", payload |-> NoPayload, error |-> message]

\* the message of the 500 response of a handler
FixedMessage(r) ==
  CASE r = "channels/monthly_metrics" -> "Failed to fetch channel monthly metrics"
    [] r = "insights" -> "Failed to fetch insights"
    [] r = "ask" -> "Failed to process query"
    [] r = "channels/efficiency" -> "Failed to fetch channel efficiency data"
    [] r = "audiences/performance_matrix" -> "Failed to fetch audience performance matrix"
    [] r = "companies" -> "Failed to fetch companies"
    [] OTHER -> "Failed to fetch channel performance matrix"

\* error.message of the axios error
AxiosMessage(outcome) ==
  IF outcome.kind = "network_error" THEN "Network Error"
  ELSE "Request failed with status code"

\* the channel with total_spend estimated when it is falsy and both factors
\* are truthy
WithTotalSpend(channel) ==
  IF ~Truthy(channel.total_spend) /\ Truthy(channel.avg_acquisition_cost)
       /\ Truthy(channel.campaign_count)
  THEN [channel EXCEPT !.total_spend = Mul(channel.avg_acquisition_cost, channel.campaign_count)]
  ELSE channel

\* what the handler returns for the payload of a successful call; the
\* companies handler returns the companies of the payload, or [] without them
Returned(r, payload) ==
  IF r = "channels/efficiency"
  THEN [payload EXCEPT !.channels =
                         [k \in 1..Len(payload.channels) |-> WithTotalSpend(payload.channels[k])]]
  ELSE IF r = "companies"
  THEN [NoPayload EXCEPT !.hasCompanies = TRUE,
                         !.companies = IF payload.hasCompanies THEN payload.companies ELSE <<>>]
  ELSE payload

\* the catch block answers every failure with status 500
CaughtWithStatus500(r, outcome) ==
  IF r \in AxiosErrorRoutes
  THEN ErrorResponse(500, IF outcome.error # "" THEN outcome.error ELSE AxiosMessage(outcome))
  ELSE ErrorResponse(500, FixedMessage(r))

\* the catch block of the handler
Caught(r, outcome) ==
  IF r \in AxiosErrorRoutes
  THEN ErrorResponse(IF outcome.status # 0 THEN outcome.status ELSE 500,
                     IF outcome.error # "" THEN outcome.error ELSE AxiosMessage(outcome))
  ELSE ErrorResponse(500, FixedMessage(r))

ResponseOf(r, outcome) ==
  IF outcome.kind = "ok" THEN DataResponse(Returned(r, outcome.payload)) ELSE Caught(r, outcome)

\* the handler tests the question only
ValidationOfQuestionOnly(r, body) ==
  CASE r # "ask" -> "valid"
    [] ~body.json -> "Invalid request format"
    [] body.question = "" -> "Question and company are required"
    [] OTHER -> "valid"

\* the body of /api/ask is read: request.json() throws, or a field is falsy
Validation(r, body) ==
  CASE r # "ask" -> "valid"
    [] ~body.json -> "Invalid request format"
    [] body.question = "" \/ body.company = "" -> "Question and company are required"
    [] OTHER -> "valid"

\* the handler runs up to its await of the backend call, or answers 400
HandleRequest ==
  /\ routePc = "received"
  /\ IF Validation(route, routeRequest) = "valid"
     THEN /\ backendCalls' = backendCalls + 1
          /\ routePc' = "awaiting"
          /\ UNCHANGED responses
     ELSE /\ responses' = Append(responses, ErrorResponse(400, Validation(route, routeRequest)))
          /\ routePc' = "done"
          /\ UNCHANGED backendCalls
  /\ UNCHANGED <<route, routeRequest, backendReply>>

\* a failed call repeated instead of answered
BackendRepliesWithRetry(outcome) ==
  /\ routePc = "awaiting"
  /\ backendReply' = outcome
  /\ IF outcome.kind = "ok"
     THEN /\ responses' = Append(responses, ResponseOf(route, outcome))
          /\ routePc' = "done"
          /\ UNCHANGED backendCalls
     ELSE /\ backendCalls' = backendCalls + 1
          /\ UNCHANGED <<responses, routePc>>
  /\ UNCHANGED <<route, routeRequest>>

\* the call of the backend ends and the handler returns its response
BackendReplies(outcome) ==
  /\ routePc = "awaiting"
  /\ backendReply' = outcome
  /\ responses' = Append(responses, ResponseOf(route, outcome))
  /\ routePc' = "done"
  /\ UNCHANGED <<route, routeRequest, backendCalls>>

InitRoute ==
  /\ InitNotLoaded /\ year = 2024 /\ metric = "roi"
  /\ NoInvocations
  /\ Mounted("Home")
  /\ route \in Routes
  /\ routeRequest \in RouteRequests(route)
  /\ routePc = "received"
  /\ backendCalls = 0
  /\ backendReply = NoReply
  /\ responses = <<>>
  /\ NoCall

NextRoute ==
  \/ HandleRequest /\ UNCHANGED <<chartVars, invocations, fetchVars, callVars>>
  \/ /\ routePc = "awaiting"
     /\ \E outcome \in BackendOutcomes(route) :
          BackendReplies(outcome) /\ UNCHANGED <<chartVars, invocations, fetchVars, callVars>>

SpecRoute == InitRoute /\ [][NextRoute]_vars

(***************************************************************************)
(* fetchAudienceMonthlyMetrics(companyId, audienceIds).                    *)
(*                                                                         *)
(* apiIds is the audienceIds argument, apiRequests the requests the call   *)
(* has sent (each with the audience ids of its URL), apiResponse the       *)
(* response of the route, apiResult the value the call resolves to.        *)
(***************************************************************************)
\* audiences in a response
MaxAudiences == 3

AudienceNames == {"A", "B", "C"}

\* the audiences of the backend: an id and a metric
Audiences == [audience_id : AudienceNames, avg_roi : {Num(1, 1), Num(3, 2)}]

AudienceLists == UNION {[1..n -> Audiences] : n \in 0..MaxAudiences}

\* the responses of the route: not ok, ok without an audiences field, ok
\* with audiences
ApiResponses ==
  {[ok |-> FALSE, hasAudiences |-> FALSE, audiences |-> <<>>],
   [ok |-> TRUE, hasAudiences |-> FALSE, audiences |-> <<>>]}
    \cup {[ok |-> TRUE, hasAudiences |-> TRUE, audiences |-> list] : list \in AudienceLists}

\* new Set(audienceIds)
SetOf(ids) == {ids[k] : k \in 1..Len(ids)}

\* the accepted audiences, the last of the response first
FilterAudiencesReversed(audiences, ids) ==
  LET kept == SelectSeq(audiences, LAMBDA a : a.audience_id \in SetOf(ids))
  IN  [k \in 1..Len(kept) |-> kept[Len(kept) + 1 - k]]

\* data.audiences.filter(audience => audienceIdsSet.has(audience.audience_id))
FilterAudiences(audiences, ids) ==
  SelectSeq(audiences, LAMBDA a : a.audience_id \in SetOf(ids))

InitApi ==
  /\ InitNotLoaded /\ year = 2024 /\ metric = "roi"
  /\ NoInvocations /\ Mounted("AudienceTrendChart") /\ NoRouteRequest /\ NoTable
  /\ apiPc = "called"
  /\ apiIds \in AudienceIdLists
  /\ apiRequests = <<>>
  /\ apiResponse = [ok |-> FALSE, hasAudiences |-> FALSE, audiences |-> <<>>]
  /\ apiResult = [hasAudiences |-> FALSE, audiences |-> <<>>]

\* the call sends its request: the URL carries no audience ids
SendRequest ==
  /\ apiPc = "called"
  /\ apiRequests' = Append(apiRequests, [path |-> "audiences/monthly_metrics",
                                         audience_ids |-> <<>>])
  /\ apiPc' = "awaiting"
  /\ UNCHANGED <<apiIds, apiResponse, apiResult>>

\* the response arrives: a response that is not ok throws, and so does the
\* filter of a body without audiences; else the body is returned, its
\* audiences filtered when audienceIds is not empty
ReceiveResponse(response) ==
  /\ apiPc = "awaiting"
  /\ apiResponse' = response
  /\ IF ~response.ok \/ (Len(apiIds) > 0 /\ ~response.hasAudiences)
     THEN apiPc' = "thrown" /\ UNCHANGED apiResult
     ELSE /\ apiPc' = "returned"
          /\ apiResult' =
               [hasAudiences |-> response.hasAudiences,
                audiences |-> IF Len(apiIds) > 0
                              THEN FilterAudiences(response.audiences, apiIds)
                              ELSE response.audiences]
  /\ UNCHANGED <<apiIds, apiRequests>>

NextApi ==
  \/ SendRequest /\ UNCHANGED <<chartVars, invocations, fetchVars, routeVars, tableVars>>
  \/ \E response \in ApiResponses :
       ReceiveResponse(response)
         /\ UNCHANGED <<chartVars, invocations, fetchVars, routeVars, tableVars>>

SpecApi == InitApi /\ [][NextApi]_vars

(***************************************************************************)
(* PerformanceTable.                                                       *)
(*                                                                         *)
(* tableData is the data prop, sortBy, sortDirection and limit the props   *)
(* of these names (limit is Undefined when the prop is absent),            *)
(* limitedData the rows the table body is built from.                      *)
(***************************************************************************)
\* rows in the data prop
MaxRows == 3

\* the rows of the data prop: audiences with their ROI, which may be null or
\* missing
TableRows == [audience_id : {"A", "B"}, avg_roi : {Null, Undefined, Num(1, 1), Num(3, 2)}]

TableLists == UNION {[1..n -> TableRows] : n \in 0..MaxRows}

\* the sort keys: the default, columns[0].key, and the one the pages pass
SortKeys == {"audience_id", "avg_roi"}

\* the limit prop: absent, or a number of rows (the pages pass 3)
Limits == {Undefined, Num(2, 1), Num(3, 1)}

\* value == null
IsNullish(v) == v.t \in {"undefined", "null"}

\* the sign of a - b for two numbers
NumCompare(a, b) == Sign(a.n * b.d - b.n * a.d)

\* aStr.localeCompare(bStr) for the audience ids
LocaleCompare(a, b) ==
  LET rank(str) == IF str = "A" THEN 1 ELSE 2
  IN  Sign(rank(a) - rank(b))

\* the comparator with null and undefined after every value in both
\* directions
CompareNullsLast(a, b, key, direction) ==
  IF key = "audience_id"
  THEN IF direction = "asc" THEN LocaleCompare(a.audience_id, b.audience_id)
       ELSE LocaleCompare(b.audience_id, a.audience_id)
  ELSE CASE IsNullish(a.avg_roi) /\ IsNullish(b.avg_roi) -> 0
         [] IsNullish(a.avg_roi) -> 1
         [] IsNullish(b.avg_roi) -> -1
         [] OTHER -> IF direction = "asc" THEN NumCompare(a.avg_roi, b.avg_roi)
                     ELSE NumCompare(b.avg_roi, a.avg_roi)

\* the comparator passed to sort, for a = a[sortBy] and b = b[sortBy]: the
\* ids are strings, the ROI a number, null or undefined
Compare(a, b, key, direction) ==
  IF key = "audience_id"
  THEN IF direction = "asc" THEN LocaleCompare(a.audience_id, b.audience_id)
       ELSE LocaleCompare(b.audience_id, a.audience_id)
  ELSE CASE IsNullish(a.avg_roi) /\ IsNullish(b.avg_roi) -> 0
         [] IsNullish(a.avg_roi) -> IF direction = "asc" THEN -1 ELSE 1
         [] IsNullish(b.avg_roi) -> IF direction = "asc" THEN 1 ELSE -1
         [] OTHER -> IF direction = "asc" THEN NumCompare(a.avg_roi, b.avg_roi)
                     ELSE NumCompare(b.avg_roi, a.avg_roi)

\* Array.prototype.sort with a comparator: a stable sort
RECURSIVE InsertRow(_, _, _, _)
InsertRow(sorted, x, key, direction) ==
  IF sorted = <<>> THEN <<x>>
  ELSE LET last == sorted[Len(sorted)]
       IN  IF Compare(x, last, key, direction) < 0
           THEN InsertRow(SubSeq(sorted, 1, Len(sorted) - 1), x, key, direction) \o <<last>>
           ELSE sorted \o <<x>>

RECURSIVE SortRowsFrom(_, _, _, _, _)
SortRowsFrom(rows, i, key, direction, acc) ==
  IF i > Len(rows) THEN acc
  ELSE SortRowsFrom(rows, i + 1, key, direction, InsertRow(acc, rows[i], key, direction))

\* [...data].sort(comparator)
SortedData(rows, key, direction) == SortRowsFrom(rows, 1, key, direction, <<>>)

\* limit ? sortedData.slice(0, limit) : sortedData
LimitedData(sorted, max) ==
  IF Truthy(max)
  THEN SubSeq(sorted, 1, IF max.n < Len(sorted) THEN max.n ELSE Len(sorted))
  ELSE sorted

InitTable ==
  /\ InitNotLoaded /\ year = 2024 /\ metric = "roi"
  /\ NoInvocations /\ Mounted("Home") /\ NoRouteRequest /\ NoApiCall
  /\ tablePc = "props"
  /\ tableData \in TableLists
  /\ sortBy \in SortKeys
  /\ sortDirection \in {"asc", "desc"}
  /\ limit \in Limits
  /\ limitedData = <<>>

\* the component renders: a copy of data is sorted and cut, data itself is
\* left as it is
PerformanceTable ==
  /\ tablePc = "props"
  /\ limitedData' = LimitedData(SortedData(tableData, sortBy, sortDirection), limit)
  /\ tablePc' = "rendered"
  /\ UNCHANGED <<tableData, sortBy, sortDirection, limit>>

NextTable ==
  PerformanceTable /\ UNCHANGED <<chartVars, invocations, fetchVars, routeVars, apiVars>>

SpecTable == InitTable /\ [][NextTable]_vars

(***************************************************************************)
(* Vocabulary of the properties.                                           *)
(***************************************************************************)
Rendered == chartData.comp # "none"
TableBuilt == Rendered /\ chartData.kind = "rows"
Rows == chartData.rows

\* the transform of the given component
Transform(comp, entities, m, y) ==
  CASE comp = "channel" -> ChannelTransformedChartData(entities, m, y)
    [] comp = "cohort" -> CohortTransformedChartData(entities, m, y)
    [] OTHER -> TransformData(entities, m)

\* the date key the given component derives from a month
DateKeyOf(comp, month) == IF comp = "trend" THEN MonthStr(month) ELSE MonthDate(year, month)

InputVisits == Visits(monthlyMetrics, 1)

HasMonth(rec) == rec.month # Undefined

\* the date keys derivable from the input records
DerivableKeys ==
  {DateKeyOf(chartData.comp, InputVisits[i].rec.month) :
     i \in {h \in 1..Len(InputVisits) : HasMonth(InputVisits[h].rec)}}

\* the input records of the entity id for the month of the row with key
RecordsAt(id, key) ==
  {i \in 1..Len(InputVisits) :
     /\ InputVisits[i].id = id
     /\ HasMonth(InputVisits[i].rec)
     /\ DateKeyOf(chartData.comp, InputVisits[i].rec.month) = key}

\* the record of entity id for that month, when there is exactly one
TheRecord(id, key) == InputVisits[CHOOSE i \in RecordsAt(id, key) : TRUE].rec

\* the ids of the input entities that have one
InputIds == {monthlyMetrics[i].id : i \in 1..Len(monthlyMetrics)} \ {NoId}

\* the slot of the entity id in the j-th row
SlotOf(j, id) == Rows[j].slots[id]

\* C1: when the entity list is not empty, the table has exactly one row per
\* distinct date key derivable from the input records, and no date key is in
\* two rows
C1_OneRowPerDateKey ==
  (TableBuilt /\ Len(monthlyMetrics) > 0) =>
    /\ Len(Rows) = Cardinality(DerivableKeys)
    /\ {Rows[j].month : j \in 1..Len(Rows)} = DerivableKeys
    /\ \A i, j \in 1..Len(Rows) : i # j => Rows[i].month # Rows[j].month

\* the records of two entities share their month: two records, one row
C1_Witness ==
  /\ TableBuilt /\ chartData.comp = "channel"
  /\ Len(InputVisits) = 2 /\ InputVisits[1].id # InputVisits[2].id
  /\ Len(Rows) = 1

\* C2: the rows are strictly ascending by date key, in the lexicographic
\* order of the zero-padded keys
C2_RowsAscending ==
  TableBuilt => \A j \in 1..(Len(Rows) - 1) : LexLess(Rows[j].month, Rows[j + 1].month)

\* the input carries month 12 before month 2, and the table has both rows
C2_Witness ==
  /\ TableBuilt /\ chartData.comp = "cohort" /\ Len(Rows) = 2
  /\ Len(InputVisits) >= 2
  /\ InputVisits[1].rec.month = Num(12, 1) /\ InputVisits[2].rec.month = Num(2, 1)

\* C3: every entity id that appears in an input record has a slot in every
\* row of the table
C3_SlotForEveryEntity ==
  TableBuilt =>
    \A i \in 1..Len(InputVisits) : \A j \in 1..Len(Rows) :
      InputVisits[i].id # NoId => InputVisits[i].id \in DOMAIN Rows[j].slots

\* entity B has a record in one month only, and a slot in the row of the other
C3_Witness ==
  /\ TableBuilt /\ chartData.comp = "channel" /\ Len(Rows) = 2
  /\ \E j \in 1..2 : RecordsAt("B", Rows[j].month) = {} /\ "B" \in DOMAIN Rows[j].slots
  /\ \E j \in 1..2 : RecordsAt("B", Rows[j].month) # {}

\* C4: an entity without a record in a month that has a row holds the missing
\* marker null there, and a slot holds a number only if a record exists for
\* that entity and month
C4_MissingIsNull ==
  TableBuilt =>
    \A j \in 1..Len(Rows) : \A id \in InputIds :
      /\ id \in DOMAIN Rows[j].slots
      /\ RecordsAt(id, Rows[j].month) = {} => SlotOf(j, id) = Null
      /\ IsNum(SlotOf(j, id)) => RecordsAt(id, Rows[j].month) # {}

\* the entities and records that carry their id and their month
RECURSIVE WellFormedRecords(_, _)
WellFormedRecords(recs, k) ==
  IF k > Len(recs) THEN <<>>
  ELSE (IF HasMonth(recs[k]) THEN <<recs[k]>> ELSE <<>>) \o WellFormedRecords(recs, k + 1)

RECURSIVE WellFormed(_, _)
WellFormed(entities, i) ==
  IF i > Len(entities) THEN <<>>
  ELSE (IF entities[i].id # NoId
        THEN <<[id |-> entities[i].id,
                monthly_metrics |-> WellFormedRecords(entities[i].monthly_metrics, 1)]>>
        ELSE <<>>)
       \o WellFormed(entities, i + 1)

\* C5: the transform never throws, and an entity without id or a record
\* without month is skipped: the output is the output for the input without them
C5_MalformedSkipped ==
  Rendered =>
    /\ chartData.kind # "throw"
    /\ chartData = Chart(chartData.comp,
                         Transform(chartData.comp, WellFormed(monthlyMetrics, 1), metric, year))

\* the slot of every record that is the only one of its entity and month
\* satisfies P(record, slot)
ForEveryRecord(P(_, _)) ==
  \A j \in 1..Len(Rows) : \A id \in InputIds :
    Cardinality(RecordsAt(id, Rows[j].month)) = 1 => P(TheRecord(id, Rows[j].month), SlotOf(j, id))

SomeRecord(P(_, _)) ==
  \E j \in 1..Len(Rows) : \E id \in InputIds :
    Cardinality(RecordsAt(id, Rows[j].month)) = 1 /\ P(TheRecord(id, Rows[j].month), SlotOf(j, id))

ChannelCpa == TableBuilt /\ chartData.comp = "channel" /\ metric = "cpa"

\* max(campaign_count, 1), an absent campaign_count counting as 1
MaxWithOne(count) == IF IsNum(count) /\ count.n >= count.d THEN count ELSE Num(1, 1)

\* campaign_count when it is present and not zero, else 1
CountOrOne(count) == IF IsNum(count) /\ count.n # 0 THEN count ELSE Num(1, 1)

Derivable(rec) == GtZero(rec.clicks) /\ GtZero(rec.conversion_rate)

\* C6 as claimed: with metric cpa, a record with clicks > 0 and
\* conversion_rate > 0 resolves to
\* (acquisition_cost * max(campaign_count, 1)) / (clicks * conversion_rate)
C6_CpaWithMaxCampaignCount ==
  ChannelCpa =>
    ForEveryRecord(LAMBDA rec, slot :
      Derivable(rec) =>
        slot = Div(Mul(rec.acquisition_cost, MaxWithOne(rec.campaign_count)),
                   Mul(rec.clicks, rec.conversion_rate)))

\* C6 amended: with metric cpa, a record with clicks > 0 and
\* conversion_rate > 0 resolves to (acquisition_cost * c) / (clicks *
\* conversion_rate), where c is campaign_count when it is present and not 0,
\* and 1 otherwise
C6_CpaWithCampaignCountOrOne ==
  ChannelCpa =>
    ForEveryRecord(LAMBDA rec, slot :
      Derivable(rec) =>
        slot = Div(Mul(rec.acquisition_cost, CountOrOne(rec.campaign_count)),
                   Mul(rec.clicks, rec.conversion_rate)))

\* clicks = 100, conversion_rate = 0.1, acquisition_cost = 5, campaign_count = 2
\* gives 1.0
C6_Witness ==
  ChannelCpa /\
    SomeRecord(LAMBDA rec, slot :
      /\ rec.clicks = Num(100, 1) /\ rec.conversion_rate = Num(1, 10)
      /\ rec.acquisition_cost = Num(5, 1) /\ rec.campaign_count = Num(2, 1)
      /\ slot = Num(1, 1))

\* C7: with metric cpa, a record whose clicks or conversion_rate is 0 or
\* absent resolves to its raw acquisition_cost, and no slot is the result of
\* a division by zero
C7_CpaFallback ==
  ChannelCpa =>
    /\ ForEveryRecord(LAMBDA rec, slot :
         (~Truthy(rec.clicks) \/ ~Truthy(rec.conversion_rate)) => slot = rec.acquisition_cost)
    /\ ForEveryRecord(LAMBDA rec, slot :
         slot.t # "inf" /\ (slot.t = "nan" => rec.acquisition_cost = Undefined))

\* clicks = 0 with an acquisition_cost of 5: the slot is 5
C7_Witness ==
  ChannelCpa /\
    SomeRecord(LAMBDA rec, slot :
      /\ rec.clicks = Num(0, 1) /\ rec.conversion_rate = Num(1, 10)
      /\ rec.acquisition_cost = Num(5, 1) /\ slot = Num(5, 1))

\* the names of the closed set of the specification other than cpa and spend
PlainMetrics == {"roi", "conversion_rate", "acquisition_cost", "ctr"}

\* C8 as claimed: for the metrics roi, conversion_rate, acquisition_cost and
\* ctr the slot is the record's field of the same name, unchanged
C8_SameNamedField ==
  (TableBuilt /\ chartData.comp \in {"channel", "cohort"} /\ metric \in PlainMetrics) =>
    ForEveryRecord(LAMBDA rec, slot : slot = rec[metric])

\* the field a selection stands for in the switch of each component
FieldOfSelection(comp, name) ==
  CASE comp = "channel" /\ name = "roi" -> "roi"
    [] comp = "channel" /\ name = "conversion" -> "conversion_rate"
    [] comp = "cohort" /\ name = "roi" -> "roi"
    [] comp = "cohort" /\ name = "conversion" -> "conversion_rate"
    [] comp = "cohort" /\ name = "acquisition" -> "acquisition_cost"
    [] comp = "cohort" /\ name = "ctr" -> "ctr"
    [] OTHER -> "roi"

\* C8 amended: in ChannelAnalysis the selections roi and conversion, and in
\* CohortAnalysis the selections roi, conversion, acquisition and ctr, give
\* the record's roi, conversion_rate, acquisition_cost and ctr field
\* unchanged; the names conversion_rate and acquisition_cost in both, and ctr
\* and acquisition in ChannelAnalysis, are no case of the switch and give the
\* record's roi
C8_FieldOfSelection ==
  (TableBuilt /\ chartData.comp \in {"channel", "cohort"}
     /\ metric \in PlainMetrics \cup {"conversion", "acquisition"}) =>
    ForEveryRecord(LAMBDA rec, slot : slot = rec[FieldOfSelection(chartData.comp, metric)])

\* CohortAnalysis with the selection ctr shows the record's ctr
C8_Witness ==
  /\ TableBuilt /\ chartData.comp = "cohort" /\ metric = "ctr"
  /\ SomeRecord(LAMBDA rec, slot : rec.ctr = Num(1, 20) /\ rec.roi = Num(5, 2) /\ slot = Num(1, 20))

\* C9: with metric spend the slot of an entity and month present in the input
\* is the record's total_spend exactly
C9_SpendIsTotalSpend ==
  (TableBuilt /\ chartData.comp = "channel" /\ metric = "spend") =>
    ForEveryRecord(LAMBDA rec, slot : slot = rec.total_spend)

\* a total_spend of 1000 that is not acquisition_cost * campaign_count
C9_Witness ==
  /\ TableBuilt /\ chartData.comp = "channel" /\ metric = "spend"
  /\ SomeRecord(LAMBDA rec, slot :
       /\ rec.total_spend = Num(1000, 1) /\ rec.acquisition_cost = Num(5, 1)
       /\ rec.campaign_count = Num(2, 1) /\ slot = Num(1000, 1))

\* the metric names known to the specification or to one of the selectors
KnownMetrics == MetricNames \ {"bogus"}

\* C10: for a metric name outside the known ones the transform gives what it
\* gives for roi
C10_UnknownMetricIsRoi ==
  (Rendered /\ metric \notin KnownMetrics) =>
    chartData = Chart(chartData.comp, Transform(chartData.comp, monthlyMetrics, "roi", year))

\* C11: when a record exists for an entity and month but lacks the field of
\* the selected metric, the transform does not throw and the entity's slot in
\* that row is the missing marker null (shown here for the selection roi,
\* which reads the field roi in all three components)
C11_MissingFieldIsNull ==
  (Rendered /\ metric = "roi" /\ \A i \in 1..Len(InputVisits) : HasMonth(InputVisits[i].rec)) =>
    /\ chartData.kind = "rows"
    /\ ForEveryRecord(LAMBDA rec, slot : rec.roi = Undefined => slot = Null)

\* the code units of the keys 2024-01-01 and 2024-02-01
Key20240101 == <<50, 48, 50, 52, 45, 48, 49, 45, 48, 49>>
Key20240201 == <<50, 48, 50, 52, 45, 48, 50, 45, 48, 49>>

\* C12: the date key of every row is the reference year, "-", the month
\* zero-padded to two digits and "-01"; entities A (month 1, roi 2.5) and B
\* (month 2, roi 3.0) with reference year 2024 and metric roi give exactly
\* the rows {2024-01-01, A: 2.5, B: null} and {2024-02-01, A: null, B: 3.0}
C12_DateKeyFormat ==
  /\ TableBuilt =>
       {Rows[j].month : j \in 1..Len(Rows)} =
         {MonthDate(year, InputVisits[i].rec.month) :
            i \in {h \in 1..Len(InputVisits) : HasMonth(InputVisits[h].rec)}}
  /\ (Rendered /\ monthlyMetrics = ScenarioInput /\ metric = "roi" /\ year = 2024) =>
       /\ chartData.kind = "rows"
       /\ Rows = <<[month |-> Key20240101, slots |-> [A |-> Num(5, 2), B |-> Null]],
                   [month |-> Key20240201, slots |-> [A |-> Null, B |-> Num(3, 1)]]>>

\* every entity of the input has an empty record list
AllRecordListsEmpty ==
  \A i \in 1..Len(monthlyMetrics) : Len(monthlyMetrics[i].monthly_metrics) = 0

\* C13: for an empty entity list, for data that is not loaded yet and for
\* entities that all have empty record lists, the transform returns the empty
\* row list and does not throw
C13_EmptyInputEmptyRows ==
  (Rendered /\ (~loaded \/ Len(monthlyMetrics) = 0 \/ AllRecordListsEmpty)) =>
    chartData.kind = "rows" /\ Rows = <<>>

\* ChannelAnalysis rendered before the first response has arrived
C13_Witness == Rendered /\ chartData.comp = "channel" /\ ~loaded /\ Rows = <<>>

\* the two calls observed ran the same transform on the same inputs
SameInputs ==
  /\ Len(invocations) = 2
  /\ invocations[1].comp = invocations[2].comp
  /\ invocations[1].entities = invocations[2].entities
  /\ invocations[1].loaded = invocations[2].loaded
  /\ invocations[1].metric = invocations[2].metric
  /\ invocations[1].year = invocations[2].year

C15_InputsUnchanged ==
  [][(invocations' # invocations \/ chartData' # chartData) =>
       /\ monthlyMetrics' = monthlyMetrics
       /\ loaded' = loaded
       /\ metric' = metric
       /\ year' = year]_vars

\* AudienceTrendChart has built the table of the two channels of month 2, and
\* the entity list is the one the call was made with
C15_Witness ==
  /\ invocations # <<>>
  /\ invocations[Len(invocations)].comp = "trend"
  /\ invocations[Len(invocations)].entities = OverlapInput
  /\ monthlyMetrics = OverlapInput
  /\ chartData = invocations[Len(invocations)].table
  /\ Len(Rows) = 1

\* what the component shows for a source: the spinner while its loading flag
\* is set, else its error when it has one, else its chart
Display(isLoading, message) ==
  IF isLoading THEN "<spinner>" ELSE IF message # NoError THEN message ELSE "<chart>"

\* the runs of the effects that load the monthly metrics
MonthlyRuns == {i \in 1..Len(requests) : requests[i].source \in {"monthlyMetrics", "monthlyData"}}

\* C16: every run of the effect that loads the monthly metrics issues
\* exactly one request and has exactly one outcome, which is final: the
\* request resolves and its entity collection is stored, or it rejects and
\* the error message of the source is set and shown; a run never issues a
\* second request
C16_OneRequestOneOutcome ==
  /\ [](\A i \in MonthlyRuns : requests[i].sent = 1)
  /\ [][\A i \in MonthlyRuns :
          /\ requests'[i].sent = requests[i].sent
          /\ requests[i].status # "pending" => requests'[i] = requests[i]
          /\ (requests[i].status = "pending" /\ requests'[i].status # "pending") =>
               \/ /\ requests'[i].status = "stored"
                  /\ data'[requests[i].source] = Payload(requests[i])
               \/ /\ requests'[i].status = "failed"
                  /\ data'[requests[i].source] = data[requests[i].source]
                  /\ Display(loading'[requests[i].source], error'[requests[i].source])
                       = FailureMessage(component, requests[i].source, "http_error")]_vars

\* AudienceTrendChart after two runs of its effect: the first stored its
\* response, the second failed and its message is shown
C16_Witness ==
  /\ component = "AudienceTrendChart"
  /\ \E i, j \in MonthlyRuns :
       /\ i < j
       /\ requests[i].status = "stored" /\ requests[j].status = "failed"
       /\ data["monthlyData"] = Payload(requests[i])
       /\ Display(loading["monthlyData"], error["monthlyData"])
            = "Failed to load audience trend data"

\* the runs of the effect of a source, and those still in flight
RunsOf(source) == {i \in 1..Len(requests) : requests[i].source = source}

InFlight(source) == {i \in RunsOf(source) : requests[i].status = "pending"}

\* the run of the source issued last
LatestRun(source) == CHOOSE i \in RunsOf(source) : \A j \in RunsOf(source) : j <= i

\* C19: once every request of a source has settled, the data stored for the
\* source is the response of the request issued last (when that request
\* succeeded), in whatever order the responses arrived
C19_LatestResponseStored ==
  \A source \in SourcesOf(component) \ {"companies"} :
    (/\ RunsOf(source) # {}
     /\ InFlight(source) = {}
     /\ requests[LatestRun(source)].status = "stored") =>
      data[source] = Payload(requests[LatestRun(source)])

\* C20: the loading flag of a source is set in every state in which a
\* request of the source is in flight
C20_LoadingWhileInFlight ==
  \A source \in SourcesOf(component) :
    InFlight(source) # {} => loading[LoadingKey(component, source)]

\* the handlers that return the payload of the backend as it is
PassThroughRoutes == Routes \ {"channels/efficiency", "companies"}

\* C17: for a request a handler calls the backend at most once and returns
\* exactly one response: the payload of the backend when the call succeeded,
\* an error response when it failed or was not made; the backend is never
\* called a second time
C17_OneCallOneResponse ==
  route \in Routes =>
    /\ backendCalls <= 1
    /\ Len(responses) <= 1
    /\ routePc = "done" <=> Len(responses) = 1
    /\ routePc = "done" =>
         /\ backendCalls = 0 => responses[1].kind = "error"
         /\ (backendCalls = 1 /\ backendReply.kind # "ok") =>
              responses[1].kind = "error" /\ responses[1].status >= 400
         /\ (backendCalls = 1 /\ backendReply.kind = "ok") =>
              /\ responses[1].kind = "data" /\ responses[1].status = 200
              /\ route \in PassThroughRoutes => responses[1].payload = backendReply.payload

\* the insights handler has called the backend once, the call has failed and
\* the handler has answered once, with status 500
C17_Witness ==
  /\ route = "insights" /\ routePc = "done"
  /\ backendCalls = 1 /\ backendReply.kind = "http_error"
  /\ responses = <<ErrorResponse(500, "Failed to fetch insights")>>

\* the channels the efficiency handler received and those it returned
ChannelsReceived == backendReply.payload.channels

ChannelsReturned == responses[1].payload.channels

EfficiencyAnswered ==
  /\ route = "channels/efficiency" /\ routePc = "done" /\ backendReply.kind = "ok"

\* C18: the efficiency handler returns as many channels as it received; a
\* channel whose total_spend the backend supplied keeps it; a channel without
\* total_spend whose avg_acquisition_cost and campaign_count are present and
\* not zero gets total_spend = avg_acquisition_cost * campaign_count; every
\* other field is passed through unchanged
C18_DerivedTotalSpend ==
  EfficiencyAnswered =>
    /\ Len(ChannelsReturned) = Len(ChannelsReceived)
    /\ \A k \in 1..Len(ChannelsReceived) :
         LET received == ChannelsReceived[k]
             returned == ChannelsReturned[k]
         IN  /\ received.total_spend # Undefined => returned.total_spend = received.total_spend
             /\ (/\ received.total_spend = Undefined
                 /\ Truthy(received.avg_acquisition_cost)
                 /\ Truthy(received.campaign_count)) =>
                  returned.total_spend =
                    Mul(received.avg_acquisition_cost, received.campaign_count)
             /\ returned.avg_acquisition_cost = received.avg_acquisition_cost
             /\ returned.campaign_count = received.campaign_count
             /\ returned.avg_roi = received.avg_roi

\* the sources that keep their loading flag in the state k
SourcesUnder(k) == {source \in SourcesOf(component) : LoadingKey(component, source) = k}

\* the runs issued by the step
Issued == {i \in 1..Len(requests') : i > Len(requests)}

\* C21: a request is issued with the loading flag of its source set, and a
\* loading flag is set only while a request of its sources is in flight:
\* once the requests have settled, resolved or rejected, the flag is false
C21_LoadingSetThenCleared ==
  /\ [](\A k \in LoadingKeys(component) :
          loading[k] => \E source \in SourcesUnder(k) : InFlight(source) # {})
  /\ [][\A i \in Issued : loading'[LoadingKey(component, requests'[i].source)]]_vars

\* CampaignAnalysis after two runs of its duration effect, one stored and
\* one failed: nothing is in flight and no spinner is left
C21_Witness ==
  /\ component = "CampaignAnalysis"
  /\ \E i, j \in RunsOf("duration") :
       requests[i].status = "stored" /\ requests[j].status = "failed"
  /\ \A source \in SourcesOf(component) : RunsOf(source) # {} /\ InFlight(source) = {}
  /\ \A k \in LoadingKeys(component) : ~loading[k]

\* the components that keep one loading and one error entry per source
KeyedComponents == {"ChannelAnalysis", "CohortAnalysis", "CampaignAnalysis"}

\* the i-th run settles in the step
Settles(i) == requests[i].status = "pending" /\ requests'[i].status # "pending"

\* what the continuation of the i-th run may change
OwnEntriesOnly(i) ==
  LET source == requests[i].source
  IN  /\ \A other \in SourcesOf(component) \ {source} :
           /\ data'[other] = data[other]
           /\ loading'[other] = loading[other]
           /\ error'[other] = error[other]
      /\ requests'[i].status = "failed" =>
           /\ error'[source] # NoError
           /\ data'[source] = data[source]
      /\ requests'[i].status = "stored" =>
           /\ error'[source] = NoError
           /\ data'[source] = Payload(requests[i])

\* C22: in ChannelAnalysis, CohortAnalysis and CampaignAnalysis the
\* completion of a fetch changes the entries of its own source only: a
\* failure sets the error of the source and keeps its data, a success
\* replaces its data and clears its error, and the data, loading and error
\* entries of every other source are as before, whatever else is in flight
C22_OnlyOwnEntries ==
  [][\A i \in 1..Len(requests) :
       (component \in KeyedComponents /\ Settles(i)) => OwnEntriesOnly(i)]_vars

\* CampaignAnalysis: the forecast is loaded; the duration data of the first
\* run is kept under the error of the second run
C22_Witness ==
  /\ component = "CampaignAnalysis"
  /\ \E i, j \in RunsOf("duration") :
       /\ i < j
       /\ requests[i].status = "stored" /\ requests[j].status = "failed"
       /\ data["duration"] = Payload(requests[i])
  /\ error["duration"] = "Failed to load campaign duration analysis data"
  /\ data["forecast"].stored /\ error["forecast"] = NoError
  /\ ~loading["duration"] /\ ~loading["forecast"]

\* what QueryInterface renders below its form: the error box when error is
\* set, the answer when there are results and no error
QueryInterface ==
  IF error["error"] # NoError THEN error["error"]
  ELSE IF data["query"].stored THEN "<answer>" ELSE "<nothing>"

\* C23: in Home a successful load of the company data clears the error a
\* failed load has set: after the step in which a load resolves, the error
\* 'Failed to load company data' is not displayed in place of the answers
C23_LoadErrorCleared ==
  [][\A i \in 1..Len(requests) :
       (/\ component = "Home"
        /\ requests[i].source = "companyData"
        /\ Settles(i) /\ requests'[i].status = "stored") =>
         QueryInterface' # "Failed to load company data"]_vars

\* the body posted to /api/ask is JSON and has a question and a company
AskComplete == routeRequest.json /\ routeRequest.question # "" /\ routeRequest.company # ""

\* C24: /api/ask answers a body whose question or company is missing or
\* empty with 400 'Question and company are required' and a body that is not
\* JSON with 400 'Invalid request format', in both cases without calling the
\* backend; it answers a failed backend call with 500 'Failed to process
\* query'; it answers with the payload of the backend exactly when the call
\* succeeded
C24_AskValidation ==
  route = "ask" =>
    /\ ~AskComplete => backendCalls = 0
    /\ routePc = "done" =>
         /\ ~routeRequest.json =>
              responses = <<ErrorResponse(400, "Invalid request format")>>
         /\ (routeRequest.json /\ ~AskComplete) =>
              responses = <<ErrorResponse(400, "Question and company are required")>>
         /\ (AskComplete /\ backendReply.kind # "ok") =>
              responses = <<ErrorResponse(500, "Failed to process query")>>
         /\ (AskComplete /\ backendReply.kind = "ok") =>
              responses = <<DataResponse(backendReply.payload)>>

\* a question without a company has been answered with status 400 and the
\* backend has not been called
C24_Witness ==
  /\ route = "ask" /\ routePc = "done"
  /\ routeRequest.json /\ routeRequest.question # "" /\ routeRequest.company = ""
  /\ backendCalls = 0 /\ backendReply = NoReply
  /\ responses = <<ErrorResponse(400, "Question and company are required")>>

\* a handler that tells axios errors apart has answered a failed call
AxiosFailureAnswered ==
  /\ route \in AxiosErrorRoutes /\ routePc = "done"
  /\ backendCalls = 1 /\ backendReply.kind # "ok"

\* C25: a handler that tells axios errors apart answers a failed backend
\* call that carried an HTTP response with the status of that response and
\* with the error message of its body, answers every other failure with
\* status 500, and never answers a failed call with a success status
C25_FailureStatusPassedOn ==
  AxiosFailureAnswered =>
    /\ Len(responses) = 1 /\ responses[1].kind = "error"
    /\ backendReply.kind = "http_error" =>
         /\ responses[1].status = backendReply.status
         /\ backendReply.error # "" => responses[1].error = backendReply.error
    /\ backendReply.kind = "network_error" => responses[1].status = 500
    /\ responses[1].status \notin 200..299

\* the companies handler has passed on the 404 of the backend and its
\* message
C25_Witness ==
  /\ AxiosFailureAnswered /\ route = "companies"
  /\ backendReply.kind = "http_error" /\ backendReply.status = 404
  /\ responses = <<ErrorResponse(404, "company not found")>>

\* the positions of the response's audiences whose id was asked for
Kept == {k \in 1..Len(apiResponse.audiences) : apiResponse.audiences[k].audience_id \in SetOf(apiIds)}

\* the j-th of them
KeptAt(j) == CHOOSE k \in Kept : Cardinality({m \in Kept : m <= k}) = j

\* C26: fetchAudienceMonthlyMetrics sends one request, without audience
\* ids; for a non-empty audienceIds it returns exactly the audiences of the
\* response whose audience_id is in audienceIds, in the order of the
\* response; for an empty audienceIds it returns all audiences of the response
C26_FilteredClientSide ==
  /\ apiPc \in {"awaiting", "returned", "thrown"} =>
       apiRequests = <<[path |-> "audiences/monthly_metrics", audience_ids |-> <<>>]>>
  /\ (apiPc = "returned" /\ apiResponse.hasAudiences) =>
       IF apiIds = <<>> THEN apiResult.audiences = apiResponse.audiences
       ELSE /\ Len(apiResult.audiences) = Cardinality(Kept)
            /\ \A j \in 1..Len(apiResult.audiences) :
                 apiResult.audiences[j] = apiResponse.audiences[KeptAt(j)]

\* the ids of a list of audiences
IdsOf(list) == [k \in 1..Len(list) |-> list[k].audience_id]

\* asked for A and B, the call has dropped C and returned B before A, as
\* in the response
C26_Witness ==
  /\ apiPc = "returned" /\ apiIds = <<"A", "B">>
  /\ IdsOf(apiResponse.audiences) = <<"B", "C", "A">>
  /\ IdsOf(apiResult.audiences) = <<"B", "A">>

\* the row a comes strictly before the row b in the order of the table:
\* by number or by id in the direction asked for, with the rows without a
\* value last when descending and first when ascending
Before(a, b) ==
  IF sortBy = "audience_id"
  THEN IF sortDirection = "asc" THEN a.audience_id = "A" /\ b.audience_id = "B"
       ELSE a.audience_id = "B" /\ b.audience_id = "A"
  ELSE CASE IsNullish(a.avg_roi) -> sortDirection = "asc" /\ ~IsNullish(b.avg_roi)
         [] IsNullish(b.avg_roi) -> sortDirection = "desc"
         [] OTHER -> IF sortDirection = "asc"
                     THEN a.avg_roi.n * b.avg_roi.d < b.avg_roi.n * a.avg_roi.d
                     ELSE a.avg_roi.n * b.avg_roi.d > b.avg_roi.n * a.avg_roi.d

\* how often the row occurs in the list
Count(list, row) == Cardinality({k \in 1..Len(list) : list[k] = row})

\* the number of rows to display
Displayed ==
  IF limit = Undefined \/ limit.n > Len(tableData) THEN Len(tableData) ELSE limit.n

\* C27: PerformanceTable displays the first limit rows (all rows without
\* a limit) of the data sorted by the sortBy key in sortDirection: the rows
\* displayed are in order, numbers compared as numbers and rows without a
\* value last for 'desc' and first for 'asc'; they are a sub-multiset of the
\* input and no row left out comes before a row displayed; the input array
\* is not reordered
C27_SortedAndLimited ==
  /\ [](tablePc = "rendered" =>
          /\ Len(limitedData) = Displayed
          /\ \A i, j \in 1..Len(limitedData) :
               i < j => ~Before(limitedData[j], limitedData[i])
          /\ \A k \in 1..Len(limitedData) :
               Count(limitedData, limitedData[k]) <= Count(tableData, limitedData[k])
          /\ \A k \in 1..Len(tableData) :
               Count(limitedData, tableData[k]) < Count(tableData, tableData[k]) =>
                 \A m \in 1..Len(limitedData) : ~Before(tableData[k], limitedData[m]))
  /\ [][tableData' = tableData]_vars

\* three audiences sorted by ROI, descending, with limit 2: the audience
\* without ROI, first in the input, is left out and the input is as it was
C27_Witness ==
  /\ tablePc = "rendered"
  /\ sortBy = "avg_roi" /\ sortDirection = "desc" /\ limit = Num(2, 1)
  /\ [k \in 1..Len(tableData) |-> tableData[k].avg_roi] = <<Null, Num(1, 1), Num(3, 2)>>
  /\ [k \in 1..Len(limitedData) |-> limitedData[k].avg_roi] = <<Num(3, 2), Num(1, 1)>>
====
